---- MODULE Spec2Model ----
(***************************************************************************)
(* Model of audiotomidimonophonic: run() of midi_generator.py driving the  *)
(* transcription pipeline features_to_midi() of midi_framework.py.         *)
(*                                                                         *)
(* Number representation (all exact integers):                             *)
(*   frame index   0-based, as in the Python code; a[i] is At(a, i)        *)
(*   rms           non-negative integers, arbitrary linear unit            *)
(*   velocity      1/VelScale of a MIDI velocity step                      *)
(*   frequency     millihertz                                              *)
(*   pitch         1/PitchScale of a semitone                              *)
(*   confidence    1/ConfScale                                             *)
(*   onset         1/OnsetScale                                            *)
(*   time          milliseconds                                            *)
(*   durations     milliseconds (0.03 s = 30)                              *)
(***************************************************************************)
EXTENDS Integers, Sequences, FiniteSets, TLC

VARIABLES
    pc,                 \* position in run() / features_to_midi()
    args,               \* the configuration run() was called with
    cfg,                \* the configuration features_to_midi() received
    onset_activations,  \* input array, rebound to the impulse train at line 85
    time,               \* input array
    frequency,          \* input array
    confidence,         \* input array
    rms,                \* input array
    midi_velocity,      \* line 63
    midi_pitch,         \* line 66
    pitch_gradient,     \* line 66: [num |-> Seq, den |-> Nat], value num[i]/den
    note_segments,      \* line 69
    notes_in,           \* the note list handed to the stage that ran last
    notes,              \* the note list the last stage returned
    midi,               \* the NoteEvents of the PrettyMIDI object (line 94)
    config_json         \* what run() saved to config.json (line 98)

vars == << pc, args, cfg, onset_activations, time, frequency, confidence, rms,
           midi_velocity, midi_pitch, pitch_gradient, note_segments,
           notes_in, notes, midi, config_json >>

---------------------------------------------------------------------------
(* Resolutions of the fixed-point representation. *)
VelScale   == 10 * 100
PitchScale == 4 * 100000
ConfScale  == 1 + 1
OnsetScale == 10 * 10
MsPerSec   == 10 * 100

(* config.py *)
FPS                == 100
SEGMENT_THRESHOLD  == 1      \* 0.001, in 1/SegScale
SegScale           == 10 * 100
MIN_NOTE_DURATION  == 30     \* 0.03 s, in ms
MIN_VELOCITY       == 6
ONSET_THRESHOLD    == 80     \* 0.8, in 1/OnsetScale
MIN_SPLIT_DURATION == 30     \* 0.03 s, in ms
TRIM_THRESHOLD     == 1

(* find_peaks(..., distance=4, ...) at lines 174 and 305 *)
PEAK_DISTANCE == 4

(* MIDI data bytes: the range pretty_midi / the MIDI format accept *)
MIDI_MAX == 127

---------------------------------------------------------------------------
(* Generic helpers *)

At(a, i) == a[i + 1]

Min2(a, b) == IF a <= b THEN a ELSE b
Max2(a, b) == IF a >= b THEN a ELSE b
Abs(a) == IF a < 0 THEN -a ELSE a

\* Python's a[s:e] for 0 <= s: silently cut to the array's length
Slice(a, s, e) == SubSeq(a, s + 1, Min2(e, Len(a)))

SetMax(S) == CHOOSE m \in S : \A y \in S : y <= m
SetMin(S) == CHOOSE m \in S : \A y \in S : y >= m

SeqMax(a) == CHOOSE m \in {a[i] : i \in DOMAIN a} : \A i \in DOMAIN a : a[i] <= m
SeqMin(a) == CHOOSE m \in {a[i] : i \in DOMAIN a} : \A i \in DOMAIN a : a[i] >= m

\* sum of a[lo..hi], by halves
RECURSIVE SumOver(_, _, _)
SumOver(a, lo, hi) ==
    IF lo > hi THEN 0
    ELSE IF lo = hi THEN a[lo]
    ELSE SumOver(a, lo, (lo + hi) \div 2) + SumOver(a, (lo + hi) \div 2 + 1, hi)

SeqSum(a) == SumOver(a, 1, Len(a))

\* the elements of a finite set of integers in increasing order
RECURSIVE SortedSeq(_)
SortedSeq(S) ==
    IF S = {} THEN << >>
    ELSE LET m == CHOOSE x \in S : \A y \in S : x <= y
         IN  << m >> \o SortedSeq(S \ {m})

\* the k-th smallest element of a (1-based), i.e. np.sort(a)[k - 1]
KthSmallest(a, k) ==
    CHOOSE v \in { a[i] : i \in DOMAIN a } :
        /\ Cardinality({ i \in DOMAIN a : a[i] < v }) < k
        /\ Cardinality({ i \in DOMAIN a : a[i] <= v }) >= k

RECURSIVE Gcd(_, _)
Gcd(a, b) == IF b = 0 THEN a ELSE Gcd(b, a % b)

\* greatest common divisor of a[lo..hi], by halves
RECURSIVE GcdOver(_, _, _)
GcdOver(a, lo, hi) ==
    IF lo > hi THEN 0
    ELSE IF lo = hi THEN a[lo]
    ELSE Gcd(GcdOver(a, lo, (lo + hi) \div 2), GcdOver(a, (lo + hi) \div 2 + 1, hi))

GcdSeq(a) == GcdOver(a, 1, Len(a))

\* floor of the square root, by bisection on [lo, hi)
RECURSIVE ISqrtIn(_, _, _)
ISqrtIn(x, lo, hi) ==
    IF hi - lo <= 1 THEN lo
    ELSE LET mid == (lo + hi) \div 2
         IN  IF mid * mid <= x THEN ISqrtIn(x, mid, hi) ELSE ISqrtIn(x, lo, mid)

ISqrt(x) == ISqrtIn(x, 0, x + 1)

\* round(n / d) for d > 0, halves to the even neighbour (Python round, np.round)
RoundHalfEven(n, d) ==
    LET q == n \div d
        r == n % d
    IN  IF 2 * r < d THEN q
        ELSE IF 2 * r > d THEN q + 1
        ELSE IF q % 2 = 0 THEN q ELSE q + 1

\* np.median of a non-empty array: the middle element, or the mean of the two
\* middle elements (exact here: the operands are even multiples of the unit)
Median(a) ==
    LET n == Len(a)
    IN  IF n % 2 = 1 THEN KthSmallest(a, (n + 1) \div 2)
        ELSE (KthSmallest(a, n \div 2) + KthSmallest(a, n \div 2 + 1)) \div 2

---------------------------------------------------------------------------
(* rms_to_velocity, lines 99-117 *)

\* np.interp(x, (lo, hi), (0, top)) for lo <= x <= hi, as numpy evaluates it:
\* with lo = hi the search lands on the last sample point and returns top
\* (there is no guard for the degenerate range in the source).
Interp(x, lo, hi, top) ==
    IF x >= hi THEN top ELSE ((x - lo) * top) \div (hi - lo)

rms_to_velocity(r) ==
    LET n  == Len(r)
        S  == SeqSum(r)
        Q  == SeqSum([i \in DOMAIN r |-> r[i] * r[i]])
        D  == n * Q - S * S                      \* n^2 * variance
        \* r[i] > mean + 6 * std
        Over(i) == n * r[i] > S /\ (n * r[i] - S) * (n * r[i] - S) > 36 * D
        Hi == (S + ISqrt(36 * D)) \div n         \* floor(mean + 6 * std)
        rms_clip == [i \in DOMAIN r |->
                        IF r[i] < 0 THEN 0 ELSE IF Over(i) THEN Hi ELSE r[i]]
        top == SeqMax(rms_clip)
    IN  [i \in DOMAIN r |-> Interp(rms_clip[i], 0, top, MIDI_MAX * VelScale)]

---------------------------------------------------------------------------
(* compute_midi_pitch_and_gradient, lines 120-142 *)

\* librosa.hz_to_midi: 69 + 12 * log2(f / 440), tabulated to 1e-5 semitone for
\* the frequencies the model draws (millihertz -> 1/PitchScale semitone)
hz_to_midi(f) ==
    4 * (CASE f = 440000   -> 6900000      \* 440 Hz      69.00000
           [] f = 446000   -> 6923449      \* 446 Hz      69.23449
           [] f = 466164   -> 7000001      \* 466.164 Hz  70.00001
           [] f = 16000000 -> 13121309)    \* 16 kHz     131.21309

\* 2 * |np.gradient(p)|: central differences, one-sided at the two ends
AbsGradient2(p) ==
    LET n == Len(p)
    IN  [i \in 1..n |->
            IF i = 1 THEN 2 * Abs(p[2] - p[1])
            ELSE IF i = n THEN 2 * Abs(p[n] - p[n - 1])
            ELSE Abs(p[i + 1] - p[i - 1])]

\* np.interp(g, (g.min(), g.max()), (0, 1)) as the fractions num[i] / den;
\* a constant g gives 1 everywhere (see Interp)
MinMaxScale(g) ==
    LET lo == SeqMin(g)
        hi == SeqMax(g)
        c  == GcdSeq([i \in DOMAIN g |-> g[i] - lo])   \* fractions in lowest terms
    IN  IF lo = hi THEN [num |-> [i \in DOMAIN g |-> 1], den |-> 1]
        ELSE [num |-> [i \in DOMAIN g |-> (g[i] - lo) \div c], den |-> (hi - lo) \div c]

\* np.gradient raises ValueError on fewer than 2 elements
GradientOk(f) == Len(f) >= 2

compute_midi_pitch(f) == [i \in DOMAIN f |-> hz_to_midi(f[i])]

compute_pitch_gradient(p) == MinMaxScale(AbsGradient2(p))

---------------------------------------------------------------------------
(* scipy.signal.find_peaks / peak_prominences / peak_widths, as called at  *)
(* lines 173-178 and 304-306; x is a sequence of integers, peaks are       *)
(* 0-based frame indices                                                   *)

\* last frame of the plateau of equal values that starts at frame i
PlateauEnd(x, i) ==
    SetMin({ k \in (i + 1)..(Len(x) - 1) : At(x, k) # At(x, i) } \cup { Len(x) }) - 1

\* _local_maxima_1d: the midpoint of every plateau that is strictly higher
\* than both neighbours; the first and the last frame are never peaks
LocalMaxima(x) ==
    { (l + PlateauEnd(x, l)) \div 2 :
        l \in { i \in 1..(Len(x) - 2) :
                  /\ At(x, i - 1) < At(x, i)
                  /\ PlateauEnd(x, i) <= Len(x) - 2
                  /\ At(x, PlateauEnd(x, i) + 1) < At(x, i) } }

\* _select_by_peak_distance: peaks are visited from the highest to the lowest
\* (among equal heights the later one first); a visited peak that is still
\* kept removes every other peak closer than the distance
RECURSIVE SelectByDistance(_, _, _, _)
SelectByDistance(kept, todo, x, distance) ==
    IF todo = {} THEN kept
    ELSE LET j == CHOOSE p \in todo : \A q \in todo :
                      \/ At(x, q) < At(x, p)
                      \/ (At(x, q) = At(x, p) /\ q <= p)
         IN  IF j \notin kept
             THEN SelectByDistance(kept, todo \ {j}, x, distance)
             ELSE SelectByDistance(
                      { k \in kept : k = j \/ Abs(k - j) >= distance },
                      todo \ {j}, x, distance)

\* peak_prominences: walk left and right from the peak until a higher sample
\* or the end; the bases are the lowest samples met, the nearest one on ties
LeftWall(x, p) ==
    LET S == { i \in 0..(p - 1) : At(x, i) > At(x, p) }
    IN  IF S = {} THEN -1 ELSE SetMax(S)

RightWall(x, p) ==
    LET S == { i \in (p + 1)..(Len(x) - 1) : At(x, i) > At(x, p) }
    IN  IF S = {} THEN Len(x) ELSE SetMin(S)

LeftMin(x, p)  == SetMin({ At(x, i) : i \in (LeftWall(x, p) + 1)..p })
RightMin(x, p) == SetMin({ At(x, i) : i \in p..(RightWall(x, p) - 1) })

LeftBase(x, p) ==
    SetMax({ i \in (LeftWall(x, p) + 1)..p : At(x, i) = LeftMin(x, p) })
RightBase(x, p) ==
    SetMin({ i \in p..(RightWall(x, p) - 1) : At(x, i) = RightMin(x, p) })

Prominence(x, p) == At(x, p) - Max2(LeftMin(x, p), RightMin(x, p))

\* peak_widths at rel_height 0.5, then np.round: the rounded position where
\* the signal crosses x[p] - prominence / 2 on each side (linear
\* interpolation between frames; all quantities doubled to stay integral)
RoundedLeftIp(x, p) ==
    LET H2 == 2 * At(x, p) - Prominence(x, p)
        i  == SetMax({ k \in LeftBase(x, p)..p : 2 * At(x, k) <= H2 })
        a  == H2 - 2 * At(x, i)
        b  == 2 * (At(x, i + 1) - At(x, i))
    IN  IF a > 0 THEN RoundHalfEven(i * b + a, b) ELSE i

RoundedRightIp(x, p) ==
    LET H2 == 2 * At(x, p) - Prominence(x, p)
        j  == SetMin({ k \in p..RightBase(x, p) : 2 * At(x, k) <= H2 })
        a  == H2 - 2 * At(x, j)
        b  == 2 * (At(x, j - 1) - At(x, j))
    IN  IF a > 0 THEN RoundHalfEven(j * b - a, b) ELSE j

---------------------------------------------------------------------------
(* compute_note_segments, lines 145-188 *)

\* (1 - confidence) * pitch_gradient broadcasts only equal lengths or a
\* one-element confidence; anything else raises ValueError
SegmentsOk(conf, pg) == Len(conf) = Len(pg.num) \/ Len(conf) = 1

\* numerators of seg_signal over the common denominator ConfScale * pg.den
SegSignal(conf, pg) ==
    [i \in DOMAIN pg.num |->
        (ConfScale - (IF Len(conf) = 1 THEN conf[1] ELSE conf[i])) * pg.num[i]]

\* find_peaks(scaled_seg_signal, distance=4, prominence=segment_threshold)
BoundaryPoints(scaled, segment_threshold) ==
    LET x == scaled.num
    IN  { p \in SelectByDistance(LocalMaxima(x), LocalMaxima(x), x, PEAK_DISTANCE) :
            Prominence(x, p) * SegScale >= segment_threshold * scaled.den }

\* variant: the left width points start the notes and the right ones end them
compute_note_segments_swapped(conf, pg, segment_threshold) ==
    LET scaled == MinMaxScale(SegSignal(conf, pg))
        x      == scaled.num
        bp     == SortedSeq(BoundaryPoints(scaled, segment_threshold))
        note_starts == << 0 >> \o [k \in DOMAIN bp |-> RoundedLeftIp(x, bp[k])]
        note_ends   == [k \in DOMAIN bp |-> RoundedRightIp(x, bp[k])] \o << Len(conf) >>
        pairs  == [k \in DOMAIN note_starts |->
                      [start |-> note_starts[k], end |-> note_ends[k]]]
    IN  SelectSeq(pairs, LAMBDA sg : sg.end - sg.start > 1)

compute_note_segments(conf, pg, segment_threshold) ==
    LET scaled == MinMaxScale(SegSignal(conf, pg))
        x      == scaled.num
        bp     == SortedSeq(BoundaryPoints(scaled, segment_threshold))
        note_starts == << 0 >> \o [k \in DOMAIN bp |-> RoundedRightIp(x, bp[k])]
        note_ends   == [k \in DOMAIN bp |-> RoundedLeftIp(x, bp[k])] \o << Len(conf) >>
        pairs  == [k \in DOMAIN note_starts |->
                      [start |-> note_starts[k], end |-> note_ends[k]]]
    IN  SelectSeq(pairs, LAMBDA sg : sg.end - sg.start > 1)

---------------------------------------------------------------------------
(* class Note, lines 16-24, and the note stages *)

Note(pitch, start, end, velocity) ==
    [pitch |-> pitch, start |-> start, end |-> end, velocity |-> velocity]

(* create_notes, lines 191-215 *)

\* np.max of an empty slice raises ValueError (np.median of one gives nan)
CreateNotesOk(segs, velocity) ==
    \A k \in DOMAIN segs : Slice(velocity, segs[k].start, segs[k].end) # << >>

create_notes(segs, pitch, velocity) ==
    [k \in DOMAIN segs |->
        Note(Median(Slice(pitch, segs[k].start, segs[k].end)),
             segs[k].start, segs[k].end,
             SeqMax(Slice(velocity, segs[k].start, segs[k].end)))]

(* merge_notes, lines 218-254 *)

\* combine_notes(), lines 235-243: what it appends to f_notes
combine_notes(comb) ==
    IF Len(comb) = 1 THEN << comb[1] >>
    ELSE IF Len(comb) > 1
    THEN << Note(Median([k \in DOMAIN comb |-> comb[k].pitch]),
                 comb[1].start, comb[Len(comb)].end,
                 SeqMax([k \in DOMAIN comb |-> comb[k].velocity])) >>
    ELSE << >>

\* np.abs(n2.pitch - n1.pitch) < 0.5, line 246
SimilarPitch(n1, n2) == 2 * Abs(n2.pitch - n1.pitch) < PitchScale

\* the loop of lines 245-251 from the pair (ns[i], ns[i+1]) on, then line 253
RECURSIVE MergeLoop(_, _, _, _)
MergeLoop(ns, i, f_notes, comb) ==
    IF i + 1 > Len(ns) THEN f_notes \o combine_notes(comb)
    ELSE IF SimilarPitch(ns[i], ns[i + 1])
    THEN MergeLoop(ns, i + 1, f_notes, Append(comb, ns[i]))
    ELSE MergeLoop(ns, i + 1, f_notes \o combine_notes(Append(comb, ns[i])), << >>)

merge_notes(ns) == MergeLoop(ns, 1, << >>, << >>)

(* remove_short_quiet_notes, lines 257-284 *)

\* variant: a note of exactly the minimum duration is long enough
LongEnoughOrEqual(n, min_note_duration) ==
    (n.end - n.start) * MsPerSec >= min_note_duration * FPS

LongEnough(n, min_note_duration) ==
    (n.end - n.start) * MsPerSec > min_note_duration * FPS

LoudEnough(n, min_velocity) == n.velocity > min_velocity * VelScale

remove_short_quiet_notes(ns, min_note_duration, min_velocity) ==
    SelectSeq(ns, LAMBDA n : LongEnough(n, min_note_duration)
                             /\ LoudEnough(n, min_velocity))

(* threshold_onset_activations, lines 287-309 *)

\* find_peaks(onset_activations, distance=4, height=onset_threshold)
OnsetIndices(oa, onset_threshold) ==
    LET high == { p \in LocalMaxima(oa) : At(oa, p) >= onset_threshold }
    IN  SelectByDistance(high, high, oa, PEAK_DISTANCE)

threshold_onset_activations(oa, onset_threshold) ==
    [i \in DOMAIN oa |-> IF (i - 1) \in OnsetIndices(oa, onset_threshold) THEN 1 ELSE 0]

(* split_notes, lines 312-348 *)

\* the loop of lines 340-343 over the remaining split points
\* variant: every sub-note is measured and emitted from the start of the note
RECURSIVE SplitLoopStuck(_, _, _, _)
SplitLoopStuck(n, split_indices, prev_split, min_split_duration) ==
    IF split_indices = << >> THEN << >>
    ELSE LET split == Head(split_indices)
         IN  IF (split - prev_split) * MsPerSec > min_split_duration * FPS
             THEN << Note(n.pitch, prev_split, split, n.velocity) >>
                  \o SplitLoopStuck(n, Tail(split_indices), prev_split, min_split_duration)
             ELSE SplitLoopStuck(n, Tail(split_indices), prev_split, min_split_duration)

\* variant: a split exactly the minimum duration after the previous one is taken
RECURSIVE SplitLoopEager(_, _, _, _)
SplitLoopEager(n, split_indices, prev_split, min_split_duration) ==
    IF split_indices = << >> THEN << >>
    ELSE LET split == Head(split_indices)
         IN  IF (split - prev_split) * MsPerSec >= min_split_duration * FPS
             THEN << Note(n.pitch, prev_split, split, n.velocity) >>
                  \o SplitLoopEager(n, Tail(split_indices), split, min_split_duration)
             ELSE SplitLoopEager(n, Tail(split_indices), prev_split, min_split_duration)

RECURSIVE SplitLoop(_, _, _, _)
SplitLoop(n, split_indices, prev_split, min_split_duration) ==
    IF split_indices = << >> THEN << >>
    ELSE LET split == Head(split_indices)
         IN  IF (split - prev_split) * MsPerSec > min_split_duration * FPS
             THEN << Note(n.pitch, prev_split, split, n.velocity) >>
                  \o SplitLoop(n, Tail(split_indices), split, min_split_duration)
             ELSE SplitLoop(n, Tail(split_indices), prev_split, min_split_duration)

\* np.where(onset_activations[note.start : note.end])[0] + note.start
ImpulsesIn(n, oa) ==
    { i \in n.start..(Min2(n.end, Len(oa)) - 1) : At(oa, i) # 0 }

SplitOne(n, oa, min_split_duration) ==
    IF ImpulsesIn(n, oa) # {}
    THEN SplitLoop(n, Append(SortedSeq(ImpulsesIn(n, oa)), n.end),
                   n.start, min_split_duration)
    ELSE << n >>

RECURSIVE split_notes(_, _, _)
split_notes(ns, oa, min_split_duration) ==
    IF ns = << >> THEN << >>
    ELSE SplitOne(Head(ns), oa, min_split_duration)
         \o split_notes(Tail(ns), oa, min_split_duration)

(* trim_notes, lines 351-381 *)

\* line 373
\* variant: an if in place of the while, at most one quiet frame is skipped
TrimStartOnce(start, end, velocity, trim_threshold) ==
    IF start < end /\ At(velocity, start) < trim_threshold * VelScale
    THEN start + 1
    ELSE start

RECURSIVE TrimStart(_, _, _, _)
TrimStart(start, end, velocity, trim_threshold) ==
    IF start < end /\ At(velocity, start) < trim_threshold * VelScale
    THEN TrimStart(start + 1, end, velocity, trim_threshold)
    ELSE start

\* line 375
RECURSIVE TrimEnd(_, _, _, _)
TrimEnd(start, end, velocity, trim_threshold) ==
    IF start < end /\ At(velocity, end - 1) < trim_threshold * VelScale
    THEN TrimEnd(start, end - 1, velocity, trim_threshold)
    ELSE end

TrimOne(n, velocity, trim_threshold) ==
    LET start == TrimStart(n.start, n.end, velocity, trim_threshold)
        end   == TrimEnd(start, n.end, velocity, trim_threshold)
    IN  [n EXCEPT !.start = start, !.end = end]

\* midi_velocity[...] raises IndexError as soon as a frame of a non-empty note
\* lies beyond the velocity array: one of the two loops reads it
TrimOk(ns, velocity) ==
    \A k \in DOMAIN ns : ns[k].start < ns[k].end => ns[k].end <= Len(velocity)

trim_notes(ns, velocity, trim_threshold) ==
    [k \in DOMAIN ns |-> TrimOne(ns[k], velocity, trim_threshold)]

(* make_midi, lines 384-415 *)

\* line 405: the notes that are not skipped
Emitted(n) == ~ (n.end - 1 <= n.start)

NoteEvent(n, t) ==
    [velocity |-> RoundHalfEven(n.velocity, VelScale),
     pitch    |-> RoundHalfEven(n.pitch, PitchScale),
     start    |-> At(t, n.start),
     end      |-> At(t, n.end - 1)]

\* time[note.end - 1] raises IndexError beyond the time array
MakeMidiOk(ns, t) ==
    \A k \in DOMAIN ns : Emitted(ns[k]) => ns[k].end - 1 < Len(t)

make_midi(ns, t) ==
    LET kept == SelectSeq(ns, Emitted)
    IN  [k \in DOMAIN kept |-> NoteEvent(kept[k], t)]

---------------------------------------------------------------------------
(* Inputs the model draws *)

NFrames        == 14    \* T of the drawn recordings
ScenarioFrames == 200   \* T of the constant recording (2 s at 100 frames/s)

NoArray  == << >>
NoConfig == [unset |-> TRUE]

Const(n, a) == [i \in 1..n |-> a]
\* a on the first k frames, b afterwards
Step(n, k, a, b) == [i \in 1..n |-> IF i <= k THEN a ELSE b]
\* a, then b from frame k1 on, then a again from frame k2 on
Step2(n, k1, k2, a, b) == [i \in 1..n |-> IF i <= k1 \/ i > k2 THEN a ELSE b]

\* crepe's time axis: one frame every 10 ms
TimeAxis(n) == [i \in 1..n |-> 10 * (i - 1)]

F_A4   == 440 * 1000
F_A4up == 446 * 1000
F_As4  == 466 * 1000 + 164
F_High == 16000 * 1000

FrequencyRich(n) ==
    { Const(n, F_A4), Const(n, F_High) }
    \cup { Step(n, k, ab[1], ab[2]) :
             k \in 1..(n - 1),
             ab \in { << F_A4, F_As4 >>, << F_A4, F_A4up >>, << F_High, F_A4 >> } }
    \cup { Step2(n, kk[1], kk[2], F_A4, b) :
             kk \in { q \in (1..(n - 1)) \X (1..(n - 1)) : q[1] < q[2] },
             b \in { F_As4, F_A4up } }

ConfidenceRich(n) ==
    { Const(n, ConfScale), Const(n, 1) }
    \cup { Step(n, k, 1, 0) : k \in 1..(n - 1) }

FrequencyFew(n) ==
    { Const(n, F_A4), Step(n, n - 2, F_A4, F_As4), Step(n, n - 2, F_High, F_A4) }

\* loud everywhere, silent everywhere, or quieter on the first a and the last
\* b frames (velocity 0, 0.635 or 5.715 against 127)
RmsRich(n) ==
    { Const(n, 200), Const(n, 0) }
    \cup { [i \in 1..n |-> IF i <= ab[1] \/ i > n - ab[2] THEN lo ELSE 200] :
             ab \in {0, 1, 2, 5} \X (0..2), lo \in {0, 1, 9} }

\* no onset, or one bump (a local maximum) below, at or above the threshold,
\* or two bumps two frames apart
OnsetRich(n) ==
    { Const(n, 0) }
    \cup { [i \in 1..n |-> IF i = k THEN h ELSE 0] :
             k \in 2..(n - 1), h \in {70, 80} }
    \cup { [i \in 1..n |-> IF i = k THEN 90 ELSE IF i = k + 2 THEN 95 ELSE 0] :
             k \in 2..(n - 3) }

Recording(oa, t, f, c, r) ==
    [onset_activations |-> oa, time |-> t, frequency |-> f,
     confidence |-> c, rms |-> r]

\* frame-aligned recordings of NFrames frames
WellFormed ==
    { Recording(Const(NFrames, 0), TimeAxis(NFrames), f, c, Const(NFrames, 200)) :
        f \in FrequencyRich(NFrames), c \in ConfidenceRich(NFrames) }
    \cup
    { Recording(oa, TimeAxis(NFrames), f, Const(NFrames, 1), r) :
        oa \in OnsetRich(NFrames), f \in FrequencyFew(NFrames),
        r \in RmsRich(NFrames) }
    \cup
    { Recording(Const(ScenarioFrames, 0), TimeAxis(ScenarioFrames),
                Const(ScenarioFrames, F_A4), Const(ScenarioFrames, ConfScale),
                Const(ScenarioFrames, 200)) }

Arrays == { "onset_activations", "time", "frequency", "confidence", "rms" }

\* one array one frame longer (its last step repeated) or one frame shorter
Longer(a)  == Append(a, 2 * a[Len(a)] - a[Len(a) - 1])
Shorter(a) == SubSeq(a, 1, Len(a) - 1)

Malformed ==
    LET base == { Recording(Const(NFrames, 0), TimeAxis(NFrames), f,
                            Const(NFrames, 1), Const(NFrames, 200)) :
                    f \in FrequencyFew(NFrames) }
    IN  { [b EXCEPT ![a] = Longer(b[a])]  : b \in base, a \in Arrays }
        \cup { [b EXCEPT ![a] = Shorter(b[a])] : b \in base, a \in Arrays }
        \cup { Recording(NoArray, NoArray, NoArray, NoArray, NoArray) }

SameLength(rec) ==
    \A a \in Arrays : Len(rec[a]) = Len(rec.confidence)

---------------------------------------------------------------------------
(* run, midi_generator.py lines 17-98, for audio_dir naming one .wav file *)

Config(st, mnd, mv, ot, msd, tt) ==
    [segment_threshold |-> st, min_note_duration |-> mnd, min_velocity |-> mv,
     onset_threshold |-> ot, min_split_duration |-> msd, trim_threshold |-> tt]

Defaults ==
    Config(SEGMENT_THRESHOLD, MIN_NOTE_DURATION, MIN_VELOCITY,
           ONSET_THRESHOLD, MIN_SPLIT_DURATION, TRIM_THRESHOLD)

\* lines 69-84: the features are loaded and features_to_midi is called with
\* the module constants, whatever run() itself was called with
RunLoadFrom(recordings) ==
    /\ pc = "run"
    /\ \E rec \in recordings :
         /\ onset_activations' = rec.onset_activations
         /\ time' = rec.time
         /\ frequency' = rec.frequency
         /\ confidence' = rec.confidence
         /\ rms' = rec.rms
    /\ cfg' = Config(SEGMENT_THRESHOLD, MIN_NOTE_DURATION, MIN_VELOCITY,
                     ONSET_THRESHOLD, MIN_SPLIT_DURATION, TRIM_THRESHOLD)
    /\ pc' = "rms_to_velocity"
    /\ UNCHANGED << args, midi_velocity, midi_pitch, pitch_gradient,
                    note_segments, notes_in, notes, midi, config_json >>

RunLoad == RunLoadFrom(WellFormed \cup Malformed)

---------------------------------------------------------------------------
(* features_to_midi, midi_framework.py lines 27-96, one action per stage;  *)
(* an exception in a stage ends the call (and run) in pc = "error"         *)

\* line 63; rms_clip.max() raises ValueError on an empty array
VelocityStep ==
    /\ pc = "rms_to_velocity"
    /\ IF Len(rms) = 0
       THEN pc' = "error" /\ UNCHANGED midi_velocity
       ELSE pc' = "compute_midi_pitch_and_gradient"
            /\ midi_velocity' = rms_to_velocity(rms)
    /\ UNCHANGED << args, cfg, onset_activations, time, frequency, confidence,
                    rms, midi_pitch, pitch_gradient, note_segments,
                    notes_in, notes, midi, config_json >>

\* line 66
PitchStep ==
    /\ pc = "compute_midi_pitch_and_gradient"
    /\ IF ~ GradientOk(frequency)
       THEN pc' = "error" /\ UNCHANGED << midi_pitch, pitch_gradient >>
       ELSE /\ pc' = "compute_note_segments"
            /\ midi_pitch' = compute_midi_pitch(frequency)
            /\ pitch_gradient' = compute_pitch_gradient(compute_midi_pitch(frequency))
    /\ UNCHANGED << args, cfg, onset_activations, time, frequency, confidence,
                    rms, midi_velocity, note_segments, notes_in, notes, midi,
                    config_json >>

\* lines 69-71
SegmentStep ==
    /\ pc = "compute_note_segments"
    /\ IF ~ SegmentsOk(confidence, pitch_gradient)
       THEN pc' = "error" /\ UNCHANGED note_segments
       ELSE /\ pc' = "create_notes"
            /\ note_segments' = compute_note_segments(confidence, pitch_gradient,
                                                      cfg.segment_threshold)
    /\ UNCHANGED << args, cfg, onset_activations, time, frequency, confidence,
                    rms, midi_velocity, midi_pitch, pitch_gradient,
                    notes_in, notes, midi, config_json >>

\* line 74
CreateStep ==
    /\ pc = "create_notes"
    /\ IF ~ CreateNotesOk(note_segments, midi_velocity)
       THEN pc' = "error" /\ UNCHANGED notes
       ELSE /\ pc' = "merge_notes"
            /\ notes' = create_notes(note_segments, midi_pitch, midi_velocity)
    /\ UNCHANGED << args, cfg, onset_activations, time, frequency, confidence,
                    rms, midi_velocity, midi_pitch, pitch_gradient,
                    note_segments, notes_in, midi, config_json >>

\* line 77
MergeStep ==
    /\ pc = "merge_notes"
    /\ notes_in' = notes
    /\ notes' = merge_notes(notes)
    /\ pc' = "remove_short_quiet_notes"
    /\ UNCHANGED << args, cfg, onset_activations, time, frequency, confidence,
                    rms, midi_velocity, midi_pitch, pitch_gradient,
                    note_segments, midi, config_json >>

\* lines 80-82
FilterStep ==
    /\ pc = "remove_short_quiet_notes"
    /\ notes_in' = notes
    /\ notes' = remove_short_quiet_notes(notes, cfg.min_note_duration,
                                         cfg.min_velocity)
    /\ pc' = "threshold_onset_activations"
    /\ UNCHANGED << args, cfg, onset_activations, time, frequency, confidence,
                    rms, midi_velocity, midi_pitch, pitch_gradient,
                    note_segments, midi, config_json >>

\* lines 85-87: the name onset_activations is rebound to the impulse train
ThresholdStep ==
    /\ pc = "threshold_onset_activations"
    /\ onset_activations' = threshold_onset_activations(onset_activations,
                                                        cfg.onset_threshold)
    /\ pc' = "split_notes"
    /\ UNCHANGED << args, cfg, time, frequency, confidence, rms, midi_velocity,
                    midi_pitch, pitch_gradient, note_segments, notes_in, notes,
                    midi, config_json >>

\* line 88
SplitStep ==
    /\ pc = "split_notes"
    /\ notes_in' = notes
    /\ notes' = split_notes(notes, onset_activations, cfg.min_split_duration)
    /\ pc' = "trim_notes"
    /\ UNCHANGED << args, cfg, onset_activations, time, frequency, confidence,
                    rms, midi_velocity, midi_pitch, pitch_gradient,
                    note_segments, midi, config_json >>

\* line 91
TrimStep ==
    /\ pc = "trim_notes"
    /\ IF ~ TrimOk(notes, midi_velocity)
       THEN pc' = "error" /\ UNCHANGED << notes_in, notes >>
       ELSE /\ pc' = "make_midi"
            /\ notes_in' = notes
            /\ notes' = trim_notes(notes, midi_velocity, cfg.trim_threshold)
    /\ UNCHANGED << args, cfg, onset_activations, time, frequency, confidence,
                    rms, midi_velocity, midi_pitch, pitch_gradient,
                    note_segments, midi, config_json >>

\* lines 94-96: features_to_midi returns the MIDI object
MakeMidiStep ==
    /\ pc = "make_midi"
    /\ IF ~ MakeMidiOk(notes, time)
       THEN pc' = "error" /\ UNCHANGED midi
       ELSE pc' = "returned" /\ midi' = make_midi(notes, time)
    /\ UNCHANGED << args, cfg, onset_activations, time, frequency, confidence,
                    rms, midi_velocity, midi_pitch, pitch_gradient,
                    note_segments, notes_in, notes, config_json >>

features_to_midi ==
    \/ VelocityStep
    \/ PitchStep
    \/ SegmentStep
    \/ CreateStep
    \/ MergeStep
    \/ FilterStep
    \/ ThresholdStep
    \/ SplitStep
    \/ TrimStep
    \/ MakeMidiStep

\* midi_generator.py line 85: midi.write; a pitch or velocity that is no MIDI
\* data byte makes the writer raise
WriteOk(events) ==
    \A k \in DOMAIN events :
        /\ events[k].pitch \in 0..MIDI_MAX
        /\ events[k].velocity \in 0..MIDI_MAX

WriteMidi ==
    /\ pc = "returned"
    /\ pc' = IF WriteOk(midi) THEN "save_json" ELSE "error"
    /\ UNCHANGED << args, cfg, onset_activations, time, frequency, confidence,
                    rms, midi_velocity, midi_pitch, pitch_gradient,
                    note_segments, notes_in, notes, midi, config_json >>

\* lines 89-98: config.json records the values run() was called with
SaveConfig ==
    /\ pc = "save_json"
    /\ config_json' = Config(args.segment_threshold, args.min_note_duration,
                             args.min_velocity, args.onset_threshold,
                             args.min_split_duration, args.trim_threshold)
    /\ pc' = "done"
    /\ UNCHANGED << args, cfg, onset_activations, time, frequency, confidence,
                    rms, midi_velocity, midi_pitch, pitch_gradient,
                    note_segments, notes_in, notes, midi >>

Blank ==
    /\ cfg = NoConfig
    /\ onset_activations = NoArray
    /\ time = NoArray
    /\ frequency = NoArray
    /\ confidence = NoArray
    /\ rms = NoArray
    /\ midi_velocity = NoArray
    /\ midi_pitch = NoArray
    /\ pitch_gradient = [num |-> NoArray, den |-> 1]
    /\ note_segments = << >>
    /\ notes_in = << >>
    /\ notes = << >>
    /\ midi = << >>
    /\ config_json = NoConfig

\* run() called with the default configuration
Init ==
    /\ pc = "run"
    /\ args = Defaults
    /\ Blank

Next ==
    \/ RunLoad
    \/ features_to_midi
    \/ WriteMidi
    \/ SaveConfig

Spec == Init /\ [][Next]_vars

---------------------------------------------------------------------------
(* run() called with one of its parameters overridden *)

ArgChoices ==
    { Defaults,
      [Defaults EXCEPT !.segment_threshold  = 500],
      [Defaults EXCEPT !.min_note_duration  = 100],
      [Defaults EXCEPT !.min_velocity       = 0],
      [Defaults EXCEPT !.onset_threshold    = 50],
      [Defaults EXCEPT !.min_split_duration = 60],
      [Defaults EXCEPT !.trim_threshold     = 10] }

FewRecordings ==
    { Recording(oa, TimeAxis(NFrames), f, Const(NFrames, 1), r) :
        oa \in { Const(NFrames, 0), [i \in 1..NFrames |-> IF i = 6 THEN 90 ELSE 0] },
        f  \in FrequencyFew(NFrames),
        r  \in { Const(NFrames, 200), Step(NFrames, 2, 9, 200) } }

RunLoadFew == RunLoadFrom(FewRecordings)

InitRun ==
    /\ pc = "run"
    /\ args \in ArgChoices
    /\ Blank

NextRun ==
    \/ RunLoadFew
    \/ features_to_midi
    \/ WriteMidi
    \/ SaveConfig

SpecRun == InitRun /\ [][NextRun]_vars

---------------------------------------------------------------------------
(* The note stages on their own: the note list (and the arrays the stage   *)
(* reads) are drawn, then the stage is applied                             *)

\* a pitch given in 1e-5 semitone
Pitch5(e5) == 4 * e5

StageBlank ==
    /\ args = Defaults
    /\ time = NoArray
    /\ frequency = NoArray
    /\ confidence = NoArray
    /\ rms = NoArray
    /\ midi_pitch = NoArray
    /\ pitch_gradient = [num |-> NoArray, den |-> 1]
    /\ note_segments = << >>
    /\ notes_in = << >>
    /\ midi = << >>
    /\ config_json = NoConfig

\* sequences of length 1..n over the set S
SeqsUpTo(S, n) == UNION { [1..m -> S] : m \in 1..n }

(* merge_notes *)
MaxMergeNotes == 3

MergePitches == { Pitch5(6900000), Pitch5(6949999), Pitch5(6950000), Pitch5(7025000) }

\* contiguous notes of 4 frames each
MergeInputs ==
    { [k \in DOMAIN pv |-> Note(pv[k][1], 4 * (k - 1), 4 * k, pv[k][2])] :
        pv \in SeqsUpTo(MergePitches \X { 10 * VelScale, 20 * VelScale }, MaxMergeNotes) }

InitMerge ==
    /\ pc = "merge_notes"
    /\ notes \in MergeInputs
    /\ cfg = Defaults
    /\ onset_activations = NoArray
    /\ midi_velocity = NoArray
    /\ StageBlank

SpecMerge == InitMerge /\ [][MergeStep]_vars

(* remove_short_quiet_notes *)
MaxFilterNotes == 3

\* contiguous notes of 2, 3 or 4 frames, velocity 5, 6, 6.001 or 7
FilterInputs ==
    { [k \in DOMAIN dv |->
          Note(Pitch5(6900000),
               SeqSum([j \in 1..(k - 1) |-> dv[j][1]]),
               SeqSum([j \in 1..k |-> dv[j][1]]),
               dv[k][2])] :
        dv \in SeqsUpTo((2..4) \X { 5000, 6000, 6001, 7000 }, MaxFilterNotes) }

InitFilter ==
    /\ pc = "remove_short_quiet_notes"
    /\ notes \in FilterInputs
    /\ cfg \in { Defaults,
                 [Defaults EXCEPT !.min_note_duration = 20, !.min_velocity = 5] }
    /\ onset_activations = NoArray
    /\ midi_velocity = NoArray
    /\ StageBlank

SpecFilter == InitFilter /\ [][FilterStep]_vars

(* split_notes *)
SplitFrames == 14

\* what threshold_onset_activations returns: impulses at least PEAK_DISTANCE
\* apart, never on the first or the last frame
ImpulseTrains(n) ==
    { [i \in 1..n |-> IF (i - 1) \in S THEN 1 ELSE 0] :
        S \in { X \in SUBSET (1..(n - 2)) :
                  \A a, b \in X : a # b => Abs(a - b) >= PEAK_DISTANCE } }

\* one or two notes of at least 2 frames, in order, not overlapping
SplitInputs(n) ==
    { << Note(Pitch5(6900000), se[1], se[2], 100 * VelScale) >> :
        se \in { q \in (0..n) \X (0..n) : q[2] - q[1] > 1 } }
    \cup
    { << Note(Pitch5(6900000), q[1], q[2], 100 * VelScale),
         Note(Pitch5(7100000), q[3], q[4], 50 * VelScale) >> :
        q \in { r \in (0..n) \X (0..n) \X (0..n) \X (0..n) :
                  r[2] - r[1] > 1 /\ r[2] <= r[3] /\ r[4] - r[3] > 1 } }

InitSplit ==
    /\ pc = "split_notes"
    /\ \/ /\ notes \in SplitInputs(SplitFrames)
          /\ onset_activations \in ImpulseTrains(SplitFrames)
       \/ /\ notes = << Note(Pitch5(6900000), 0, ScenarioFrames, 100 * VelScale) >>
          /\ onset_activations =
                 [i \in 1..ScenarioFrames |->
                     IF i - 1 = (3 * ScenarioFrames) \div 4 THEN 1 ELSE 0]
    /\ cfg \in { Defaults, [Defaults EXCEPT !.min_split_duration = 50] }
    /\ midi_velocity = NoArray
    /\ StageBlank

SpecSplit == InitSplit /\ [][SplitStep]_vars

(* trim_notes, and trim_notes applied once more to its own result *)
TrimFrames == 6

TrimInputs(n) ==
    { << Note(Pitch5(6900000), se[1], se[2], 100 * VelScale) >> :
        se \in { q \in (0..n) \X (0..n) : q[1] < q[2] } }
    \cup
    { << Note(Pitch5(6900000), q[1], q[2], 100 * VelScale),
         Note(Pitch5(7100000), q[2], n, 50 * VelScale) >> :
        q \in { r \in (0..n) \X (0..n) : r[1] < r[2] /\ r[2] < n } }

TrimAgain ==
    /\ pc = "make_midi"
    /\ notes_in' = notes
    /\ notes' = trim_notes(notes, midi_velocity, cfg.trim_threshold)
    /\ pc' = "trimmed_twice"
    /\ UNCHANGED << args, cfg, onset_activations, time, frequency, confidence,
                    rms, midi_velocity, midi_pitch, pitch_gradient,
                    note_segments, midi, config_json >>

InitTrim ==
    /\ pc = "trim_notes"
    /\ notes \in TrimInputs(TrimFrames)
    /\ midi_velocity \in [1..TrimFrames -> { 999, 1000 }]
    /\ cfg = Defaults
    /\ onset_activations = NoArray
    /\ StageBlank

NextTrim ==
    \/ TrimStep
    \/ TrimAgain

SpecTrim == InitTrim /\ [][NextTrim]_vars

---------------------------------------------------------------------------
(* Properties *)

Range(a) == { a[i] : i \in DOMAIN a }

Returned == pc \in { "returned", "save_json", "done" }

\* the recording is the constant one: confidence 1.0 and 440 Hz on every frame
ConstantRecording ==
    /\ Len(confidence) = ScenarioFrames
    /\ confidence = Const(ScenarioFrames, ConfScale)
    /\ frequency = Const(ScenarioFrames, F_A4)

\* the only segment passes the filter and holds no onset impulse
OneSegmentKept ==
    /\ Len(note_segments) = 1
    /\ (note_segments[1].end - note_segments[1].start) * MsPerSec
           > cfg.min_note_duration * FPS
    /\ \E i \in note_segments[1].start..(note_segments[1].end - 1) :
           At(midi_velocity, i) > cfg.min_velocity * VelScale
    /\ \A i \in note_segments[1].start..(note_segments[1].end - 1) :
           At(onset_activations, i) = 0

\* C1: on the constant recording (confidence 1.0, 440 Hz, audible) the
\* Segmenter yields the single segment (0, T) and the pipeline returns
\* exactly one NoteEvent, of pitch 69; and whenever the Segmenter yields one
\* segment that passes the filter and is not split, exactly one NoteEvent
\* is returned.
C1_OneSegmentOneEvent ==
    pc = "returned" =>
        /\ ConstantRecording =>
              /\ note_segments = << [start |-> 0, end |-> ScenarioFrames] >>
              /\ Len(midi) = 1
              /\ midi[1].pitch = 69
        /\ (SameLength(Recording(onset_activations, time, frequency, confidence, rms))
              /\ OneSegmentKept) => Len(midi) = 1

\* C2: every NoteEvent make_midi returns has 0 <= pitch <= 127,
\* 0 <= velocity <= 127, start_time < end_time, and both times are elements
\* of the input time array.
C2_NoteEventsValid ==
    pc = "returned" =>
        \A k \in DOMAIN midi :
            /\ midi[k].pitch \in 0..127
            /\ midi[k].velocity \in 0..127
            /\ midi[k].start < midi[k].end
            /\ midi[k].start \in Range(time)
            /\ midi[k].end \in Range(time)

\* each element starts no earlier than its predecessor and (allowing a gap of
\* zero width) only after its predecessor has ended
Ordered(ns) ==
    \A k \in 1..(Len(ns) - 1) :
        /\ ns[k].start <= ns[k + 1].start
        /\ ns[k].end <= ns[k + 1].start

\* C3: after every stage (the segments, and the note list after create_notes,
\* merge_notes, remove_short_quiet_notes, split_notes and trim_notes) the
\* notes are sorted by start and each ends no later than the next one
\* starts; so are the NoteEvents returned.
C3_NotesStayOrdered ==
    /\ Ordered(note_segments)
    /\ Ordered(notes_in)
    /\ Ordered(notes)
    /\ Ordered(midi)

\* three segments were found and two NoteEvents came out of the pipeline
C3_Witness ==
    /\ pc = "returned"
    /\ Len(note_segments) >= 3
    /\ Len(midi) >= 2
    /\ midi[1].end < midi[2].start

\* C4: with rms 0 on every frame rms_to_velocity returns velocity 0 on every
\* frame, and the pipeline returns no NoteEvent.
C4_SilenceGivesNoNotes ==
    (rms # NoArray /\ \A i \in DOMAIN rms : rms[i] = 0) =>
        /\ pc \notin { "rms_to_velocity", "error" } =>
               \A i \in DOMAIN midi_velocity : midi_velocity[i] = 0
        /\ pc = "returned" => midi = << >>

\* C5: when the five input arrays do not all have the same length, or are
\* empty, features_to_midi ends in an error and returns no note list.
C5_MalformedInputFails ==
    Returned =>
        /\ SameLength(Recording(onset_activations, time, frequency, confidence, rms))
        /\ Len(confidence) > 0

\* C6: the configuration run() was called with is the one the pipeline stages
\* use, so config.json records the configuration the MIDI was made with.
C6_OverridesAreUsed ==
    /\ pc \notin { "run" } => cfg = args
    /\ pc = "done" => config_json = cfg

\* some note of the stage's result spans the frames s..e
Spanned(s, e) == \E j \in DOMAIN notes : notes[j].start <= s /\ e <= notes[j].end

\* C7: of two adjacent notes handed to merge_notes, a pair whose pitches
\* differ by exactly 0.5 is not merged (both come out, as separate notes),
\* and a pair whose pitches differ by less than 0.5 comes out as one note
\* spanning both.
C7_MergeBoundaryLaw ==
    pc = "remove_short_quiet_notes" =>
        \A k \in 1..(Len(notes_in) - 1) :
            LET n1 == notes_in[k]
                n2 == notes_in[k + 1]
            IN  /\ 2 * Abs(n2.pitch - n1.pitch) = PitchScale =>
                       /\ Spanned(n1.start, n1.end)
                       /\ Spanned(n2.start, n2.end)
                       /\ ~ Spanned(n1.start, n2.end)
                /\ 2 * Abs(n2.pitch - n1.pitch) < PitchScale =>
                       Spanned(n1.start, n2.end)

\* the sub-notes split_notes made of the note n
SubNotes(n) == SelectSeq(notes, LAMBDA o : n.start <= o.start /\ o.end <= n.end)

\* the split points of n: its impulse frames, then its end
SplitPoints(n) ==
    { i \in n.start..(n.end - 1) :
        i < Len(onset_activations) /\ At(onset_activations, i) # 0 } \cup { n.end }

Far(p, q) == (p - q) * MsPerSec > cfg.min_split_duration * FPS

\* out is what the walk over the split points of n emits: every sub-note runs
\* from the previous accepted point (first the start of n) to the first
\* split point more than the minimum away from it, and no split point after
\* the last accepted one is that far away
SplitRule(n, out) ==
    IF SplitPoints(n) = { n.end } THEN out = << n >>
    ELSE /\ \A k \in DOMAIN out :
              /\ out[k].pitch = n.pitch
              /\ out[k].velocity = n.velocity
              /\ out[k].start = (IF k = 1 THEN n.start ELSE out[k - 1].end)
              /\ out[k].end \in SplitPoints(n)
              /\ Far(out[k].end, out[k].start)
              /\ \A p \in SplitPoints(n) :
                     p < out[k].end => ~ Far(p, out[k].start)
         /\ LET last == IF out = << >> THEN n.start ELSE out[Len(out)].end
            IN  \A p \in SplitPoints(n) : ~ Far(p, last)

\* the note of ScenarioFrames frames with one impulse three quarters in
ScenarioC ==
    /\ Len(notes_in) = 1
    /\ notes_in[1].start = 0
    /\ notes_in[1].end = ScenarioFrames
    /\ SplitPoints(notes_in[1]) = { (3 * ScenarioFrames) \div 4, ScenarioFrames }

\* C8: split_notes emits, for every note that holds impulses, the sub-notes
\* of the walk over its impulse frames and its end (a split point is taken
\* exactly when it is more than min_split_duration * FPS frames after the
\* previous one taken, and skipped otherwise), and keeps a note without
\* impulses unchanged; the note [0, 200) with one impulse at frame 150 gives
\* exactly [0, 150) and [150, 200) with the parent's pitch and velocity.
C8_SplitRule ==
    pc = "trim_notes" =>
        /\ \A k \in DOMAIN notes_in : SplitRule(notes_in[k], SubNotes(notes_in[k]))
        /\ Len(notes) = SeqSum([k \in DOMAIN notes_in |-> Len(SubNotes(notes_in[k]))])
        /\ \A j \in 1..(Len(notes) - 1) : notes[j].start < notes[j + 1].start
        /\ ScenarioC =>
              notes = << [notes_in[1] EXCEPT !.end = (3 * ScenarioFrames) \div 4],
                         [notes_in[1] EXCEPT !.start = (3 * ScenarioFrames) \div 4] >>

\* the scenario note was split in two
C8_Witness ==
    /\ pc = "trim_notes"
    /\ ScenarioC
    /\ cfg = Defaults
    /\ Len(notes) = 2

\* C9: remove_short_quiet_notes keeps, in their order, exactly the notes with
\* (end - start) > min_note_duration * FPS and velocity > min_velocity; with
\* the defaults a note of 2 or of 3 frames, and one of velocity 6, is dropped.
C9_FilterKeepsExactly ==
    pc = "threshold_onset_activations" =>
        LET keep == { k \in DOMAIN notes_in :
                        /\ (notes_in[k].end - notes_in[k].start) * MsPerSec
                               > cfg.min_note_duration * FPS
                        /\ notes_in[k].velocity > cfg.min_velocity * VelScale }
            order == SortedSeq(keep)
        IN  /\ notes = [j \in 1..Cardinality(keep) |-> notes_in[order[j]]]
            /\ cfg = Defaults =>
                   \A j \in DOMAIN notes :
                       /\ notes[j].end - notes[j].start > 3
                       /\ notes[j].velocity > 6 * VelScale

\* with the defaults, a note of 3 frames and one of velocity 6 were dropped
\* and a note after them was kept
C9_Witness ==
    /\ pc = "threshold_onset_activations"
    /\ cfg = Defaults
    /\ Len(notes_in) = 3
    /\ notes_in[1].end - notes_in[1].start = 3
    /\ notes_in[1].velocity > 6 * VelScale
    /\ notes_in[2].end - notes_in[2].start = 4
    /\ notes_in[2].velocity = 6 * VelScale
    /\ notes = << notes_in[3] >>

\* C10: trim_notes applied to notes it has already trimmed (same velocity
\* array, same threshold) changes no start and no end.
C10_TrimIdempotent ==
    pc = "trimmed_twice" =>
        /\ Len(notes) = Len(notes_in)
        /\ \A k \in DOMAIN notes :
               /\ notes[k].start = notes_in[k].start
               /\ notes[k].end = notes_in[k].end

\* trimmed twice, a note that has quiet frames right before and right after it
C10_Witness ==
    /\ pc = "trimmed_twice"
    /\ \E k \in DOMAIN notes :
          /\ notes[k].start < notes[k].end
          /\ notes[k].start > 0
          /\ At(midi_velocity, notes[k].start - 1) < TRIM_THRESHOLD * VelScale
          /\ notes[k].end < Len(midi_velocity)
          /\ At(midi_velocity, notes[k].end) < TRIM_THRESHOLD * VelScale

\* the positions in notes_in after which the pitch changes by 0.5 or more
RunBreaks ==
    { k \in 1..(Len(notes_in) - 1) :
        2 * Abs(notes_in[k + 1].pitch - notes_in[k].pitch) >= PitchScale }

\* the first positions of the maximal runs of similar adjacent notes
RunFirsts == SortedSeq({ k \in DOMAIN notes_in : k = 1 \/ (k - 1) \in RunBreaks })

\* the last position of the run that begins at s
RunLast(s) == SetMin({ k \in s..Len(notes_in) : k \in RunBreaks \/ k = Len(notes_in) })

\* the note a run is emitted as
RunNote(s) ==
    IF RunLast(s) = s THEN notes_in[s]
    ELSE [pitch    |-> Median([k \in 1..(RunLast(s) - s + 1) |-> notes_in[s + k - 1].pitch]),
          start    |-> notes_in[s].start,
          end      |-> notes_in[RunLast(s)].end,
          velocity |-> SetMax({ notes_in[k].velocity : k \in s..RunLast(s) })]

\* C11: merge_notes emits one note for every maximal run of consecutive notes
\* whose adjacent original pitches differ by less than 0.5, in order (a run
\* of one note unchanged, a longer run from its first start to its last end
\* with the median pitch and the maximum velocity); every input note, the
\* last one included, is in a run, so a non-empty input gives a non-empty
\* output with the same first start and last end.
C11_MergeEmitsEveryRun ==
    pc = "remove_short_quiet_notes" =>
        /\ notes = [j \in DOMAIN RunFirsts |-> RunNote(RunFirsts[j])]
        /\ notes_in # << >> =>
              /\ notes # << >>
              /\ notes[1].start = notes_in[1].start
              /\ notes[Len(notes)].end = notes_in[Len(notes_in)].end

\* the frames start..end-1 of n exist and there is at least one of them
ValidNote(n) == 0 <= n.start /\ n.start < n.end /\ n.end <= Len(confidence)

\* C12: on arrays of one length T, every segment handed to create_notes and
\* every note handed on by create_notes, merge_notes,
\* remove_short_quiet_notes, split_notes and trim_notes has
\* 0 <= start < end <= T: a note that collapsed is dropped by the stage that
\* produced it and never reaches a later stage.
C12_NotesStayValid ==
    SameLength(Recording(onset_activations, time, frequency, confidence, rms)) =>
        /\ pc \notin { "run", "error" } =>
               \A k \in DOMAIN note_segments : ValidNote(note_segments[k])
        /\ pc \in { "merge_notes", "remove_short_quiet_notes",
                    "threshold_onset_activations", "split_notes",
                    "trim_notes", "make_midi" } =>
               \A k \in DOMAIN notes : ValidNote(notes[k])

\* the note n holds at least one thresholded impulse
HasImpulse(n) == SplitPoints(n) # { n.end }

\* C13: every note split_notes returns lies inside one of the notes it was
\* given; the sub-notes of a note that holds an impulse are contiguous, the
\* first starting where the note starts, each longer than
\* min_split_duration * FPS frames; frames after the last sub-note are left
\* out only when the end of the note is within min_split_duration * FPS of
\* it, and a note no longer than min_split_duration * FPS yields no sub-note.
C13_SubNotesContiguous ==
    pc = "trim_notes" =>
        /\ \A j \in DOMAIN notes : \E k \in DOMAIN notes_in :
               /\ notes_in[k].start <= notes[j].start
               /\ notes[j].end <= notes_in[k].end
               /\ notes[j].pitch = notes_in[k].pitch
        /\ \A k \in DOMAIN notes_in : HasImpulse(notes_in[k]) =>
               LET n   == notes_in[k]
                   out == SubNotes(n)
               IN  /\ \A j \in DOMAIN out :
                          /\ out[j].start = (IF j = 1 THEN n.start ELSE out[j - 1].end)
                          /\ out[j].end <= n.end
                          /\ Far(out[j].end, out[j].start)
                   /\ (out # << >> /\ out[Len(out)].end < n.end) =>
                          ~ Far(n.end, out[Len(out)].end)
                   /\ ~ Far(n.end, n.start) => out = << >>

\* of two notes holding impulses, the first gave two sub-notes that stop short
\* of its end and the second, 3 frames long, gave none
C13_Witness ==
    /\ pc = "trim_notes"
    /\ cfg = Defaults
    /\ Len(notes_in) = 2
    /\ HasImpulse(notes_in[1])
    /\ Len(notes) = 2
    /\ notes[1].start = notes_in[1].start
    /\ notes[2].start = notes[1].end
    /\ notes[2].end < notes_in[1].end
    /\ HasImpulse(notes_in[2])
    /\ notes_in[2].end - notes_in[2].start = 3

====
